---- MODULE Spec2Model ----
(***************************************************************************)
(* Vec3 (src/util/vec.py): a three-component vector over Python floats,    *)
(* built on rlbot.flat.Vector3.  The model keeps                           *)
(*   - a heap of Vec3 objects (identity |-> <<x, y, z>>), so that "returns *)
(*     a new instance" and "leaves its operands unchanged" are statements  *)
(*     about identities and fields;                                        *)
(*   - Python floats as a reduced-precision binary floating-point format   *)
(*     (Precision mantissa bits, round-to-nearest-even, gradual underflow, *)
(*     overflow to infinity, NaN), so that rounding, overflow and division *)
(*     by zero behave as they do for IEEE-754 doubles, only sooner;        *)
(*   - every call as an outcome: a returned reference, a returned number,  *)
(*     or a raised Python exception.                                       *)
(* Signed zeros are not distinguished (0.0 == -0.0 in Python, and both     *)
(* raise as divisors).  NaN is a single value of the model.                *)
(***************************************************************************)
EXTENDS Integers, Sequences, FiniteSets, TLC

VARIABLES heap, pre, pc, call, ret

vars == <<heap, pre, pc, call, ret>>

(***************************************************************************)
(* The float format.  A finite float is an integer count of units of       *)
(* 2^-FracBits; its magnitude is below 2^Precision (unit-spaced, the       *)
(* subnormal range) or m * 2^e with m < 2^Precision and e <= MaxExp.       *)
(***************************************************************************)
Precision == 4

FracBits == 3

MaxExp == 4

RECURSIVE Pow2(_)
Pow2(n) == IF n = 0 THEN 1 ELSE 2 * Pow2(n - 1)

One == Pow2(FracBits)

MaxF == (Pow2(Precision) - 1) * Pow2(MaxExp)

PosInf == MaxF + 1

NegInf == -PosInf

NaN == MaxF + 2

IsInf(v) == v = PosInf \/ v = NegInf

IsFinite(v) == v # NaN /\ ~IsInf(v)

Abs(n) == IF n < 0 THEN -n ELSE n

Sign(n) == IF n < 0 THEN -1 ELSE 1

\* The exponent of the quotient num/den: the least e with num/den < 2^(Precision+e).
RECURSIVE ExpOf(_, _, _)
ExpOf(num, den, e) ==
    IF num < Pow2(Precision + e) * den THEN e ELSE ExpOf(num, den, e + 1)

\* num/den (num >= 0, den > 0) rounded to the nearest float, ties to the even
\* mantissa; the result may exceed MaxF.
RoundMag(num, den) ==
    LET e == ExpOf(num, den, 0)
        d == den * Pow2(e)
        m == num \div d
        r == num - m * d
        up == 2 * r > d \/ (2 * r = d /\ m % 2 = 1)
    IN  (IF up THEN m + 1 ELSE m) * Pow2(e)

\* A rational num/den (den > 0) as a float: rounded, overflowing to an infinity.
Round(num, den) ==
    LET v == RoundMag(Abs(num), den)
    IN  IF v > MaxF THEN Sign(num) * PosInf ELSE Sign(num) * v

FNeg(a) == IF a = NaN THEN NaN ELSE -a

FAdd(a, b) ==
    IF a = NaN \/ b = NaN THEN NaN
    ELSE IF IsInf(a) THEN (IF b = -a THEN NaN ELSE a)
    ELSE IF IsInf(b) THEN b
    ELSE Round(a + b, 1)

FSub(a, b) == FAdd(a, FNeg(b))

FMul(a, b) ==
    IF a = NaN \/ b = NaN THEN NaN
    ELSE IF IsInf(a) \/ IsInf(b)
         THEN (IF a = 0 \/ b = 0 THEN NaN ELSE Sign(a) * Sign(b) * PosInf)
    ELSE Round(a * b, One)

\* a / b for b # 0 (Python raises before dividing by zero).
FDiv(a, b) ==
    IF a = NaN \/ b = NaN THEN NaN
    ELSE IF IsInf(a) THEN (IF IsInf(b) THEN NaN ELSE Sign(a) * Sign(b) * PosInf)
    ELSE IF IsInf(b) THEN 0
    ELSE Round(Sign(b) * a * One, Abs(b))

\* The exponent of sqrt(n): the least e with n < (2^(Precision+e))^2.
RECURSIVE SqrtExpOf(_, _)
SqrtExpOf(n, e) ==
    IF n < Pow2(Precision + e) * Pow2(Precision + e) THEN e ELSE SqrtExpOf(n, e + 1)

\* math.sqrt of a float a >= 0: correctly rounded.
FSqrt(a) ==
    IF a = NaN THEN NaN
    ELSE IF a = PosInf THEN PosInf
    ELSE LET n == a * One
             e == SqrtExpOf(n, 0)
             q == n \div (Pow2(e) * Pow2(e))
             m == CHOOSE k \in 0..Pow2(Precision) : k * k <= q /\ (k + 1) * (k + 1) > q
             up == (2 * m + 1) * (2 * m + 1) * Pow2(e) * Pow2(e) < 4 * n
         IN  (IF up THEN m + 1 ELSE m) * Pow2(e)


(***************************************************************************)
(* Python values and outcomes.  A call returns a reference to a Vec3, a    *)
(* float, or raises; with it comes the heap the call leaves behind.        *)
(***************************************************************************)
Num(v) == [isvec |-> FALSE, v |-> v]

Ref(id) == [isvec |-> TRUE, v |-> id]

RetRef(h, id) == [heap |-> h, kind |-> "ref", ref |-> id, num |-> 0, err |-> "none"]

RetNum(h, v) == [heap |-> h, kind |-> "num", ref |-> 0, num |-> v, err |-> "none"]

Raise(h, e) == [heap |-> h, kind |-> "raise", ref |-> 0, num |-> 0, err |-> e]

MaxId(h) == IF DOMAIN h = {} THEN 0 ELSE CHOOSE i \in DOMAIN h : \A j \in DOMAIN h : j <= i

\* A temporary whose last reference is gone is freed.
Free(h, id) == [i \in DOMAIN h \ {id} |-> h[i]]

\* float ** 2: a finite base whose square is out of range raises OverflowError.
PowOverflows(x) == IsFinite(x) /\ IsInf(Round(x * x, One))

Pow2f(x) ==
    IF x = NaN THEN NaN ELSE IF IsInf(x) THEN PosInf ELSE Round(x * x, One)

\* Mutant of TupleGetItem: negative indices are not wrapped.
TupleGetItemNoWrap(h, t, item) ==
    IF item < 0 \/ item >= Len(t) THEN Raise(h, "IndexError") ELSE RetNum(h, t[item + 1])

\* (a, b, c)[item] on a 3-tuple: a negative index counts from the end.
TupleGetItem(h, t, item) ==
    LET i == IF item < 0 THEN item + Len(t) ELSE item
    IN  IF i < 0 \/ i >= Len(t) THEN Raise(h, "IndexError") ELSE RetNum(h, t[i + 1])

\* math.acos: NaN passes through, an argument outside [-1, 1] is a domain
\* error.  The angle acos(c) is kept as its cosine c (acos is injective on
\* [-1, 1]).
Acos(h, c) ==
    IF c = NaN THEN RetNum(h, NaN)
    ELSE IF c > One \/ c < -One THEN Raise(h, "ValueError")
    ELSE RetNum(h, c)

(***************************************************************************)
(* Vec3                                                                    *)
(***************************************************************************)
\* super().__new__(cls, x, y, z): a fresh object holding the three floats.
Vector3New(h, x, y, z) ==
    LET id == MaxId(h) + 1 IN RetRef(h @@ (id :> [x |-> x, y |-> y, z |-> z]), id)

\* Mutant of Vec3Match: the y and z passed along a vector are not rebound.
Vec3MatchNoRebind(h, x, y, z) ==
    IF x.isvec THEN Vector3New(h, h[x.v].x, y, z) ELSE Vector3New(h, x.v, y, z)

\* The match statement of __new__: a vector as x rebinds y and z to its fields.
Vec3Match(h, x, y, z) ==
    IF x.isvec THEN Vector3New(h, h[x.v].x, h[x.v].y, h[x.v].z)
    ELSE Vector3New(h, x.v, y, z)

\* Vec3(*args): the parameters left out default to 0.
Vec3(h, args) ==
    LET x == IF Len(args) >= 1 THEN args[1] ELSE Num(0)
        y == IF Len(args) >= 2 THEN args[2].v ELSE 0
        z == IF Len(args) >= 3 THEN args[3].v ELSE 0
    IN  Vec3Match(h, x, y, z)

Vec3xyz(h, x, y, z) == Vec3(h, <<Num(x), Num(y), Num(z)>>)

__getitem__(h, self, item) ==
    TupleGetItem(h, <<h[self].x, h[self].y, h[self].z>>, item)

__add__(h, self, other) ==
    Vec3xyz(h, FAdd(h[self].x, h[other].x), FAdd(h[self].y, h[other].y),
            FAdd(h[self].z, h[other].z))

__sub__(h, self, other) ==
    Vec3xyz(h, FSub(h[self].x, h[other].x), FSub(h[self].y, h[other].y),
            FSub(h[self].z, h[other].z))

\* Mutant of __neg__: negates self in place and returns it.
neg_inplace(h, self) ==
    RetRef([h EXCEPT ![self] = [x |-> FNeg(h[self].x), y |-> FNeg(h[self].y),
                                z |-> FNeg(h[self].z)]], self)

__neg__(h, self) == Vec3xyz(h, FNeg(h[self].x), FNeg(h[self].y), FNeg(h[self].z))

__mul__(h, self, scale) ==
    Vec3xyz(h, FMul(h[self].x, scale), FMul(h[self].y, scale), FMul(h[self].z, scale))

\* Mutant of __rmul__: the scale is dropped.
rmul_noscale(h, self, scale) == __mul__(h, self, One)

__rmul__(h, self, scale) == __mul__(h, self, scale)

\* Mutant of __truediv__: IEEE division, 1 / 0 is an infinity and nothing raises.
truediv_ieee(h, self, scale) ==
    __mul__(h, self, IF scale = 0 THEN PosInf ELSE FDiv(One, scale))

\* Mutant of __truediv__: each component is divided by the scale.
truediv_componentwise(h, self, scale) ==
    IF scale = 0 THEN Raise(h, "ZeroDivisionError")
    ELSE Vec3xyz(h, FDiv(h[self].x, scale), FDiv(h[self].y, scale), FDiv(h[self].z, scale))

\* scale = 1 / float(scale) raises ZeroDivisionError for a zero scale.
__truediv__(h, self, scale) ==
    IF scale = 0 THEN Raise(h, "ZeroDivisionError")
    ELSE __mul__(h, self, FDiv(One, scale))

\* Mutant of flat: the wrong component is zeroed.
flat_y(h, self) == Vec3xyz(h, h[self].x, 0, h[self].z)

flat(h, self) == Vec3xyz(h, h[self].x, h[self].y, 0)

length(h, self) ==
    IF PowOverflows(h[self].x) \/ PowOverflows(h[self].y) \/ PowOverflows(h[self].z)
    THEN Raise(h, "OverflowError")
    ELSE RetNum(h, FSqrt(FAdd(FAdd(Pow2f(h[self].x), Pow2f(h[self].y)),
                              Pow2f(h[self].z))))

\* Mutant of dist: the length of the sum.
dist_sum(h, self, other) ==
    LET d == __add__(h, self, other)
        l == length(d.heap, d.ref)
    IN  [l EXCEPT !.heap = Free(l.heap, d.ref)]

\* (self - other).length(): the difference is a temporary.
dist(h, self, other) ==
    LET d == __sub__(h, self, other)
        l == length(d.heap, d.ref)
    IN  [l EXCEPT !.heap = Free(l.heap, d.ref)]

normalized(h, self) ==
    LET l == length(h, self)
    IN  IF l.kind = "raise" THEN l ELSE __truediv__(l.heap, self, l.num)

\* new_len * self.normalized(): float.__mul__ declines, Vec3.__rmul__ runs on
\* the temporary.
rescale(h, self, new_len) ==
    LET n == normalized(h, self)
    IN  IF n.kind = "raise" THEN n
        ELSE LET r == __rmul__(n.heap, n.ref, new_len)
             IN  [r EXCEPT !.heap = Free(r.heap, n.ref)]

dot(h, self, other) ==
    RetNum(h, FAdd(FAdd(FMul(h[self].x, h[other].x), FMul(h[self].y, h[other].y)),
                   FMul(h[self].z, h[other].z)))

\* Mutant of cross: the operands of the second component are swapped.
cross_swapped(h, self, other) ==
    Vec3xyz(h,
        FSub(FMul(h[self].y, h[other].z), FMul(h[self].z, h[other].y)),
        FSub(FMul(h[self].x, h[other].z), FMul(h[self].z, h[other].x)),
        FSub(FMul(h[self].x, h[other].y), FMul(h[self].y, h[other].x)))

cross(h, self, other) ==
    Vec3xyz(h,
        FSub(FMul(h[self].y, h[other].z), FMul(h[self].z, h[other].y)),
        FSub(FMul(h[self].z, h[other].x), FMul(h[self].x, h[other].z)),
        FSub(FMul(h[self].x, h[other].y), FMul(h[self].y, h[other].x)))

ang_to(h, self, ideal) ==
    LET d  == dot(h, self, ideal)
        l1 == length(h, self)
        l2 == length(h, ideal)
    IN  IF l1.kind = "raise" THEN l1
        ELSE IF l2.kind = "raise" THEN l2
        ELSE LET den == FMul(l1.num, l2.num)
             IN  IF den = 0 THEN Raise(h, "ZeroDivisionError")
                 ELSE Acos(h, FDiv(d.num, den))

(***************************************************************************)
(* The client: it holds some vectors read from the game packet, calls one  *)
(* operation at a time on the vectors it holds, and either binds the       *)
(* result to a name (Keep) or lets it go (Discard).                        *)
(***************************************************************************)
MaxObjs == 2

V(x, y, z) == [x |-> x * One, y |-> y * One, z |-> z * One]

\* The smallest positive float along x: its square underflows to 0.
Tiny == [x |-> 1, y |-> 0, z |-> 0]

\* A vector with an infinite component, as Vec3(float("inf")) builds it.
Far == [x |-> PosInf, y |-> 0, z |-> 0]

InputVecs == {V(0, 0, 0), V(1, 0, 0), V(0, 1, 0), V(0, 1, 1), V(1, 2, 3), Tiny, Far}

Scalars == {0, 3 * One, -(One \div 2)}

Indices == -4..3

\* Argument lists of Vec3(...) made of floats: every prefix of an input vector.
ScalarArgs ==
    {SubSeq(<<Num(v.x), Num(v.y), Num(v.z)>>, 1, n) : v \in InputVecs, n \in 0..3}

\* What may follow a vector passed as x: nothing, y, or y and z.
CopyTails == {<<>>, <<Num(2 * One)>>, <<Num(2 * One), Num(3 * One)>>}

Objs == DOMAIN heap

NoCall == [op |-> "none", self |-> 0, other |-> 0, k |-> 0, args |-> <<>>]

NoRet == [kind |-> "none", ref |-> 0, num |-> 0, err |-> "none"]

Init ==
    /\ heap \in {(1 :> a) : a \in InputVecs}
                \cup {(1 :> a) @@ (2 :> b) : a \in InputVecs, b \in InputVecs}
    /\ pre = heap
    /\ pc = "idle"
    /\ call = NoCall
    /\ ret = NoRet

\* One call: o is its outcome on the current heap.
Do(op, self, other, k, args, o) ==
    /\ pc = "idle"
    /\ pc' = "returned"
    /\ pre' = heap
    /\ heap' = o.heap
    /\ call' = [op |-> op, self |-> self, other |-> other, k |-> k, args |-> args]
    /\ ret' = [kind |-> o.kind, ref |-> o.ref, num |-> o.num, err |-> o.err]

New == \E args \in ScalarArgs : Do("new", 0, 0, 0, args, Vec3(heap, args))

Copy ==
    \E s \in Objs, t \in CopyTails :
        Do("new", 0, 0, 0, <<Ref(s)>> \o t, Vec3(heap, <<Ref(s)>> \o t))

GetItem == \E s \in Objs, i \in Indices : Do("getitem", s, 0, i, <<>>, __getitem__(heap, s, i))

Add == \E s \in Objs, o \in Objs : Do("add", s, o, 0, <<>>, __add__(heap, s, o))

Sub == \E s \in Objs, o \in Objs : Do("sub", s, o, 0, <<>>, __sub__(heap, s, o))

Neg == \E s \in Objs : Do("neg", s, 0, 0, <<>>, __neg__(heap, s))

Mul == \E s \in Objs, k \in Scalars : Do("mul", s, 0, k, <<>>, __mul__(heap, s, k))

RMul == \E s \in Objs, k \in Scalars : Do("rmul", s, 0, k, <<>>, __rmul__(heap, s, k))

TrueDiv == \E s \in Objs, k \in Scalars : Do("truediv", s, 0, k, <<>>, __truediv__(heap, s, k))

Flat == \E s \in Objs : Do("flat", s, 0, 0, <<>>, flat(heap, s))

Length == \E s \in Objs : Do("length", s, 0, 0, <<>>, length(heap, s))

Dist == \E s \in Objs, o \in Objs : Do("dist", s, o, 0, <<>>, dist(heap, s, o))

Normalized == \E s \in Objs : Do("normalized", s, 0, 0, <<>>, normalized(heap, s))

Rescale == \E s \in Objs, k \in Scalars : Do("rescale", s, 0, k, <<>>, rescale(heap, s, k))

Dot == \E s \in Objs, o \in Objs : Do("dot", s, o, 0, <<>>, dot(heap, s, o))

Cross == \E s \in Objs, o \in Objs : Do("cross", s, o, 0, <<>>, cross(heap, s, o))

AngTo == \E s \in Objs, o \in Objs : Do("ang_to", s, o, 0, <<>>, ang_to(heap, s, o))

\* The caller binds the returned vector to a name: it stays alive.
Keep ==
    /\ pc = "returned"
    /\ ret.kind = "ref"
    /\ Cardinality(DOMAIN pre) < MaxObjs
    /\ pc' = "idle"
    /\ pre' = heap
    /\ call' = NoCall
    /\ ret' = NoRet
    /\ UNCHANGED heap

\* The caller drops the result: a vector nobody else refers to is freed.
Discard ==
    /\ pc = "returned"
    /\ pc' = "idle"
    /\ heap' = IF ret.kind = "ref" /\ ret.ref \notin DOMAIN pre
               THEN Free(heap, ret.ref) ELSE heap
    /\ pre' = heap'
    /\ call' = NoCall
    /\ ret' = NoRet

Next ==
    \/ New \/ Copy \/ GetItem \/ Add \/ Sub \/ Neg \/ Mul \/ RMul \/ TrueDiv
    \/ Flat \/ Length \/ Dist \/ Normalized \/ Rescale \/ Dot \/ Cross \/ AngTo
    \/ Keep \/ Discard

Spec == Init /\ [][Next]_vars

(***************************************************************************)
(* Properties                                                              *)
(***************************************************************************)
Returned(op) == pc = "returned" /\ call.op = op

Self == pre[call.self]

Other == pre[call.other]

RetVec == heap[ret.ref]

ReturnsVec == ret.kind = "ref" /\ ret.ref \in DOMAIN heap

ReturnsNum(v) == ret.kind = "num" /\ ret.num = v

Raises(e) == ret.kind = "raise" /\ ret.err = e

\* The length of object id of heap h is the float 0.
ZeroLen(h, id) == length(h, id).kind = "num" /\ length(h, id).num = 0

FiniteLen(h, id) == length(h, id).kind = "num" /\ IsFinite(length(h, id).num)

NonFinite(v) == v = NaN \/ IsInf(v)

\* C1 as stated: v[0], v[1], v[2] are v.x, v.y, v.z, and every other integer
\* index, the negative ones included, fails with IndexError.
C1_AsStated ==
    Returned("getitem") =>
        /\ call.k = 0 => ReturnsNum(Self.x)
        /\ call.k = 1 => ReturnsNum(Self.y)
        /\ call.k = 2 => ReturnsNum(Self.z)
        /\ call.k \notin 0..2 => Raises("IndexError")

\* C1 (amended): v[0], v[1], v[2] are v.x, v.y, v.z; the indices -3, -2, -1
\* count from the end and return v.x, v.y, v.z; every index >= 3 or <= -4
\* fails with IndexError, and indexing never changes the heap.
C1_GetItem ==
    Returned("getitem") =>
        /\ call.k \in {0, -3} => ReturnsNum(Self.x)
        /\ call.k \in {1, -2} => ReturnsNum(Self.y)
        /\ call.k \in {2, -1} => ReturnsNum(Self.z)
        /\ (call.k >= 3 \/ call.k <= -4) => Raises("IndexError")
        /\ heap = pre

C1_Witness ==
    /\ Returned("getitem")
    /\ Self = V(1, 2, 3)
    /\ call.k = -1
    /\ ReturnsNum(3 * One)

\* C2 as stated: with a zero-length operand, normalized, rescale and ang_to
\* raise nothing and return a non-finite (inf/NaN) result.
C2_AsStated ==
    /\ (Returned("normalized") \/ Returned("rescale")) /\ ZeroLen(pre, call.self) =>
           /\ ReturnsVec
           /\ NonFinite(RetVec.x) \/ NonFinite(RetVec.y) \/ NonFinite(RetVec.z)
    /\ Returned("ang_to") /\ (ZeroLen(pre, call.self) \/ ZeroLen(pre, call.other)) =>
           ret.kind = "num" /\ NonFinite(ret.num)

\* C2 (amended): when a has zero length, normalized(a) and rescale(a, new_len)
\* raise ZeroDivisionError; ang_to(a, ideal) raises ZeroDivisionError when one
\* operand has zero length and the other a finite length.  No value is
\* returned and no vector is left behind.
C2_ZeroLengthRaises ==
    /\ (Returned("normalized") \/ Returned("rescale")) /\ ZeroLen(pre, call.self) =>
           Raises("ZeroDivisionError") /\ heap = pre
    /\ /\ Returned("ang_to")
       /\ \/ ZeroLen(pre, call.self) /\ FiniteLen(pre, call.other)
          \/ ZeroLen(pre, call.other) /\ FiniteLen(pre, call.self)
       => Raises("ZeroDivisionError") /\ heap = pre

C2_Witness ==
    /\ Returned("normalized")
    /\ Self = Tiny
    /\ ZeroLen(pre, call.self)
    /\ Raises("ZeroDivisionError")

\* C3: for two vectors of non-zero length ang_to never fails with a domain
\* error (the cosine is clamped into [-1, 1] before the inverse cosine).
C3_NoDomainError ==
    /\ Returned("ang_to")
    /\ FiniteLen(pre, call.self) /\ ~ZeroLen(pre, call.self)
    /\ FiniteLen(pre, call.other) /\ ~ZeroLen(pre, call.other)
    => ~Raises("ValueError")

\* C4: a / 0 raises ZeroDivisionError and creates no vector; for k # 0, a / k
\* is the vector a * (1 / k).
C4_Divide ==
    Returned("truediv") =>
        IF call.k = 0
        THEN Raises("ZeroDivisionError") /\ heap = pre
        ELSE LET r == FDiv(One, call.k)
                 m == __mul__(pre, call.self, r)
             IN  /\ ReturnsVec
                 /\ RetVec = [x |-> FMul(Self.x, r), y |-> FMul(Self.y, r),
                              z |-> FMul(Self.z, r)]
                 /\ RetVec = m.heap[m.ref]

C4_Witness ==
    /\ Returned("truediv")
    /\ Self = V(1, 2, 3)
    /\ call.k = 3 * One
    /\ ReturnsVec
    /\ RetVec.z # One

VectorOps ==
    {"new", "add", "sub", "neg", "mul", "rmul", "truediv", "flat", "normalized",
     "rescale", "cross"}

\* C5: after any sequence of operations, a call leaves the fields of every
\* vector that existed before it unchanged, whether it returns or raises; a
\* vector-valued operation that returns, returns a vector that did not exist
\* before the call; a call that raises or returns a float leaves no vector
\* behind.
C5_NoMutationFreshResult ==
    pc = "returned" =>
        /\ \A id \in DOMAIN pre : id \in DOMAIN heap /\ heap[id] = pre[id]
        /\ call.op \in VectorOps => ret.kind \in {"ref", "raise"}
        /\ ret.kind = "ref" => ret.ref \in DOMAIN heap \ DOMAIN pre
        /\ ret.kind # "ref" => heap = pre

\* The operand is itself the result of an earlier operation.
C5_Witness ==
    /\ Returned("cross")
    /\ Self \notin InputVecs
    /\ ReturnsVec
    /\ ret.ref \notin DOMAIN pre

\* C6: k * a has the components of a * k, namely (a.x*k, a.y*k, a.z*k).
C6_LeftScale ==
    Returned("rmul") =>
        LET m == __mul__(pre, call.self, call.k)
        IN  /\ ReturnsVec
            /\ RetVec = [x |-> FMul(Self.x, call.k), y |-> FMul(Self.y, call.k),
                         z |-> FMul(Self.z, call.k)]
            /\ RetVec = m.heap[m.ref]

C6_Witness ==
    /\ Returned("rmul")
    /\ Self = V(1, 2, 3)
    /\ call.k = 3 * One
    /\ ReturnsVec
    /\ RetVec = V(3, 6, 9)

\* C7: cross(a, b) is (a.y*b.z - a.z*b.y, a.z*b.x - a.x*b.z, a.x*b.y - a.y*b.x),
\* it equals negate(cross(b, a)) component by component, and
\* cross((1,0,0), (0,1,0)) is (0,0,1).
C7_Cross ==
    Returned("cross") =>
        LET c == cross(pre, call.other, call.self)
            n == __neg__(c.heap, c.ref)
        IN  /\ ReturnsVec
            /\ RetVec = [x |-> FSub(FMul(Self.y, Other.z), FMul(Self.z, Other.y)),
                         y |-> FSub(FMul(Self.z, Other.x), FMul(Self.x, Other.z)),
                         z |-> FSub(FMul(Self.x, Other.y), FMul(Self.y, Other.x))]
            /\ RetVec = n.heap[n.ref]
            /\ Self = V(1, 0, 0) /\ Other = V(0, 1, 0) => RetVec = V(0, 0, 1)

C7_Witness ==
    /\ Returned("cross")
    /\ Self = V(1, 0, 0)
    /\ Other = V(0, 1, 0)
    /\ ReturnsVec
    /\ RetVec = V(0, 0, 1)

ArgOr0(args, i) == IF Len(args) >= i THEN args[i].v ELSE 0

\* C8: Vec3(source, y, z) with a vector as source has the fields of source
\* whatever y and z are, Vec3 of up to three floats has exactly those floats
\* with 0 for the ones left out, and the result is a vector of its own.
C8_Construct ==
    Returned("new") =>
        /\ ReturnsVec
        /\ ret.ref \notin DOMAIN pre
        /\ IF Len(call.args) >= 1 /\ call.args[1].isvec
           THEN /\ RetVec = pre[call.args[1].v]
                /\ ret.ref # call.args[1].v
                /\ heap[call.args[1].v] = pre[call.args[1].v]
           ELSE RetVec = [x |-> ArgOr0(call.args, 1), y |-> ArgOr0(call.args, 2),
                          z |-> ArgOr0(call.args, 3)]

C8_Witness ==
    /\ Returned("new")
    /\ Len(call.args) = 3
    /\ call.args[1].isvec
    /\ pre[call.args[1].v] = V(0, 1, 1)
    /\ call.args[2].v = 2 * One
    /\ ReturnsVec
    /\ RetVec = V(0, 1, 1)

\* C9: dist(a, b) is length(a - b), and dist(a, b) and dist(b, a) have the same
\* outcome.
C9_Dist ==
    Returned("dist") =>
        LET d == __sub__(pre, call.self, call.other)
            l == length(d.heap, d.ref)
            r == dist(pre, call.other, call.self)
        IN  /\ ret.kind = l.kind /\ ret.num = l.num /\ ret.err = l.err
            /\ ret.kind = r.kind /\ ret.num = r.num /\ ret.err = r.err
            /\ ret.kind = "num" =>
                 ret.num = FSqrt(FAdd(FAdd(Pow2f(FSub(Self.x, Other.x)),
                                           Pow2f(FSub(Self.y, Other.y))),
                                      Pow2f(FSub(Self.z, Other.z))))

C9_Witness ==
    /\ Returned("dist")
    /\ Self = V(1, 2, 3)
    /\ Other = V(0, 1, 1)
    /\ ret.kind = "num"
    /\ ret.num # 0

\* C10: flat(a) has the x and y of a and z = 0, flat(flat(a)) has the
\* components of flat(a), and flat((1,2,3)) is (1,2,0).
C10_Flat ==
    Returned("flat") =>
        /\ ReturnsVec
        /\ RetVec = [x |-> Self.x, y |-> Self.y, z |-> 0]
        /\ LET f == flat(heap, ret.ref) IN f.heap[f.ref] = RetVec
        /\ Self = V(1, 2, 3) => RetVec = V(1, 2, 0)

C10_Witness ==
    /\ Returned("flat")
    /\ Self = V(1, 2, 3)
    /\ ReturnsVec
    /\ RetVec = V(1, 2, 0)
====
